---------------------------- MODULE Spec2Model ----------------------------
(***************************************************************************)
(* PiCord: the SSH terminal-session feature (features/ssh/__init__.py,     *)
(* class RunFeature) together with the part of the message router          *)
(* (bot.py, PiCordBot.handle_message) that feeds it.                       *)
(*                                                                         *)
(* Text is modelled as a sequence of pieces.  A piece is either one        *)
(* character (all text a user can type, all whitespace) or a fixed         *)
(* whitespace-free fragment of a message template of the bot.              *)
(*                                                                         *)
(* Every on_message event runs as its own asyncio task; a task runs        *)
(* without interruption up to its next transport await (reply, send, edit, *)
(* delete), so one action of the model is one such block.  The outcome of  *)
(* the awaited transport call is chosen when the call is issued and is     *)
(* consumed by the block that resumes the task.                            *)
(***************************************************************************)
EXTENDS Integers, Sequences, FiniteSets, TLC

-----------------------------------------------------------------------------
(* Bounds of the model *)

MaxMsgs == 4
MaxInFlight == 2
MaxSessions == 3
MaxTicks == 3
MaxIds == 52

-----------------------------------------------------------------------------
(* Text helpers: str.strip, str.lower, str.split, str.startswith *)

WS == {" ", "\n", "\t"}

LowerChar(c) ==
    CASE c = "E" -> "e" [] c = "X" -> "x" [] c = "I" -> "i" [] c = "T" -> "t"
      [] c = "C" -> "c" [] c = "D" -> "d" [] c = "S" -> "s" [] c = "L" -> "l"
      [] c = "H" -> "h" [] c = "O" -> "o" [] c = "A" -> "a" [] c = "R" -> "r"
      [] c = "P" -> "p"
      [] OTHER -> c

Lower(s) == [i \in DOMAIN s |-> LowerChar(s[i])]

RECURSIVE LStrip(_)
LStrip(s) == IF s # <<>> /\ Head(s) \in WS THEN LStrip(Tail(s)) ELSE s

RECURSIVE RStrip(_)
RStrip(s) ==
    IF s # <<>> /\ s[Len(s)] \in WS THEN RStrip(SubSeq(s, 1, Len(s) - 1)) ELSE s

Strip(s) == RStrip(LStrip(s))

StartsWith(s, p) == Len(s) >= Len(p) /\ SubSeq(s, 1, Len(p)) = p

(* str.split(sep): the fields between separators, empty ones included *)
RECURSIVE SplitBy(_, _)
SplitBy(s, Sep) ==
    IF s = <<>> THEN << <<>> >>
    ELSE LET r == SplitBy(Tail(s), Sep) IN
         IF Head(s) \in Sep THEN << <<>> >> \o r
         ELSE << <<Head(s)>> \o Head(r) >> \o Tail(r)

(* str.split(): the maximal runs of non-whitespace, in order *)
TokenStarts(s) == {i \in 1..Len(s) : s[i] \notin WS /\ (i = 1 \/ s[i - 1] \in WS)}

TokenEnd(s, i) ==
    CHOOSE j \in i..Len(s) :
        /\ \A k \in i..j : s[k] \notin WS
        /\ (j = Len(s) \/ s[j + 1] \in WS)

Split(s) ==
    [n \in 1..Cardinality(TokenStarts(s)) |->
        LET i == CHOOSE x \in TokenStarts(s) :
                    Cardinality({y \in TokenStarts(s) : y < x}) = n - 1
        IN  SubSeq(s, i, TokenEnd(s, i))]

RECURSIVE SkipToken(_)
SkipToken(s) == IF s # <<>> /\ Head(s) \notin WS THEN SkipToken(Tail(s)) ELSE s

SplitMax1(s) ==
    LET t == LStrip(s)
        rest == LStrip(SkipToken(t))
        first == SubSeq(t, 1, Len(t) - Len(SkipToken(t)))
    IN  IF t = <<>> THEN <<>>
        ELSE IF rest = <<>> THEN <<first>> ELSE <<first, rest>>

Contains(s, t) ==
    \E i \in 0..(Len(s) - Len(t)) : SubSeq(s, i + 1, i + Len(t)) = t

Digit(d) ==
    CASE d = 0 -> "0" [] d = 1 -> "1" [] d = 2 -> "2" [] d = 3 -> "3"
      [] d = 4 -> "4" [] d = 5 -> "5" [] d = 6 -> "6" [] d = 7 -> "7"
      [] d = 8 -> "8" [] d = 9 -> "9"

RECURSIVE NumStr(_)
NumStr(n) == IF n < 10 THEN <<Digit(n)>> ELSE NumStr(n \div 10) \o <<Digit(n % 10)>>


-----------------------------------------------------------------------------
(* Configuration and host environment *)

(* config["bot"]["prefix"] *)
Prefix == <<".">>

(* feature_config.get("timeout", 30) *)
Timeout == 30

(* possible values of feature_config.get("allowed_commands", []): absent or *)
(* empty, the wildcard, the wildcard among other entries, a list of literal  *)
(* first tokens                                                              *)
AllowedConfigs ==
    { {},
      { <<"*">> },
      { <<"*">>, <<"e","c","h","o">> },
      { <<"e","c","h","o">>, <<"c","d">> } }

(* os.environ USER / HOSTNAME, os.path.expanduser("~"), os.getcwd() *)
EnvUser == <<"u">>
EnvHost == <<"h">>
Home == <<"/","h">>
HostCwd == <<"/","h">>

(* the directories that exist on the host *)
Dirs == { <<"/">>, <<"/","h">>, <<"/","h","/","d">>, <<"/","t">> }

(* str(message.author.id) of client.user and of another account *)
Self == "self"
Other == "other"
Users == {Self, Other}

-----------------------------------------------------------------------------
(* Paths: os.path.expanduser, isabs, join, abspath, isdir *)

ExpandUser(p) ==
    IF StartsWith(p, <<"~">>) /\ (Len(p) = 1 \/ p[2] = "/")
    THEN (IF Home = <<"/">> THEN <<>> ELSE Home) \o
         (IF Len(p) = 1 /\ Home = <<"/">> THEN <<"/">> ELSE SubSeq(p, 2, Len(p)))
    ELSE p

IsAbs(p) == StartsWith(p, <<"/">>)

PathJoin(a, b) ==
    IF IsAbs(b) THEN b
    ELSE IF a = <<>> \/ a[Len(a)] = "/" THEN a \o b
    ELSE a \o <<"/">> \o b

RECURSIVE NormComps(_, _)
NormComps(comps, acc) ==
    IF comps = <<>> THEN acc
    ELSE LET c == Head(comps) IN
         IF c = <<>> \/ c = <<".">> THEN NormComps(Tail(comps), acc)
         ELSE IF c = <<".", ".">>
              THEN NormComps(Tail(comps),
                             IF acc = <<>> THEN acc ELSE SubSeq(acc, 1, Len(acc) - 1))
              ELSE NormComps(Tail(comps), Append(acc, c))

RECURSIVE JoinComps(_)
JoinComps(comps) ==
    IF comps = <<>> THEN <<>>
    ELSE IF Len(comps) = 1 THEN Head(comps)
    ELSE Head(comps) \o <<"/">> \o JoinComps(Tail(comps))

(* posixpath.normpath of an absolute path: exactly two leading slashes are kept *)
NormPath(p) ==
    LET slashes == IF StartsWith(p, <<"/","/">>) /\ ~StartsWith(p, <<"/","/","/">>)
                   THEN <<"/","/">> ELSE <<"/">>
    IN  slashes \o JoinComps(NormComps(SplitBy(p, {"/"}), <<>>))

AbsPath(p) == NormPath(IF IsAbs(p) THEN p ELSE PathJoin(HostCwd, p))

IsDir(p) ==
    (IF StartsWith(p, <<"/","/">>) THEN Tail(p) ELSE p) \in Dirs

-----------------------------------------------------------------------------
(* Message texts of the bot; an emoji is the piece <name>, *)
(* a backquote <bq>, a code fence <fence>                                   *)

GetBashPrompt(username, hostname, cwd) ==
    LET shown == IF StartsWith(cwd, Home)
                 THEN <<"~">> \o SubSeq(cwd, Len(Home) + 1, Len(cwd))
                 ELSE cwd
    IN  <<"[">> \o username \o <<"@">> \o hostname \o <<" ">> \o shown \o <<"]", "$", " ">>

IntroText(prompt) ==
    <<"*", "*", "<desktop>", " ", "Terminal", " ", "Session", " ", "Started**", "\n",
      "Type", " ", "commands", " ", "normally.", " ", "Type", " ", "<bq>exit<bq>", " ",
      "to", " ", "end", " ", "the", " ", "session.", "\n", "<fence>", "\n">>
    \o prompt \o <<"<fence>">>

TerminalHead(prompt, command) ==
    <<"*", "*", "<desktop>", " ", "Terminal**", "\n", "<fence>", "\n">> \o prompt \o command \o <<"\n">>

TerminalTextMut(head, output, new_prompt) ==
    head \o output \o <<"\n">> \o new_prompt \o <<"<fence>">>

TerminalText(head, output, new_prompt) ==
    head \o (IF output # <<>> THEN output \o <<"\n">> ELSE <<>>) \o new_prompt \o <<"<fence>">>

StartFailedText ==
    <<"<x>", " ", "Failed", " ", "to", " ", "start", " ", "terminal", " ", "session:", " ", "error">>

RouterFailedText ==
    <<"<x>", " ", "Failed", " ", "to", " ", "start", " ", "ssh:", " ", "error">>

HelpText == <<"*", "*", "PiCord", " ", "Commands:**", "\n", "<bq>.help<bq>">>

UnknownAppText(app) == <<"<x>", " ", "Unknown", " ", "app:", " ">> \o app

OtherStartedText(app) ==
    <<"<ok>", " ", "Started", " ">> \o app \o <<" ", "app!">>

DeniedTextMut(tok) == <<"e", "x", "i", "t">>

DeniedText(tok) ==
    <<"<x>", " ", "Command", " ", "<bq>">> \o tok \o <<"<bq>", " ", "is", " ", "not", " ", "allowed!">>

TimedOutTextMut(t) == <<"<x>", " ", "Command", " ", "timed", " ", "out">>

TimedOutText(t) ==
    <<"<x>", " ", "Command", " ", "timed", " ", "out", " ", "after", " ">>
    \o NumStr(t) \o <<" ", "seconds">>

ExitCodeText(rc) ==
    <<"Command", " ", "failed", " ", "with", " ", "exit", " ", "code", " ">> \o NumStr(rc)

SpawnErrorText == <<"<x>", " ", "Error", " ", "executing", " ", "command:", " ", "OSError">>

NoSuchDirText(target) ==
    <<"bash:", " ", "cd:", " ">> \o target
    \o <<":", " ", "No", " ", "such", " ", "file", " ", "or", " ", "directory">>

ExitWord == <<"e", "x", "i", "t">>

-----------------------------------------------------------------------------
(* The host shell: what subprocess.run(command, shell=True, cwd=..., timeout=...) *)
(* can produce for the commands of the model                                      *)

RECURSIVE JoinWords(_)
JoinWords(ws) ==
    IF ws = <<>> THEN <<>>
    ELSE IF Len(ws) = 1 THEN Head(ws)
    ELSE Head(ws) \o <<" ">> \o JoinWords(Tail(ws))

(* child is what became of the process subprocess.run started: run() returns *)
(* after the child exited; on TimeoutExpired it kills the child and waits for *)
(* it before raising; an OSError from Popen means no child was started        *)
Done(rc, out, err) ==
    [kind |-> "done", rc |-> rc, stdout |-> out, stderr |-> err, child |-> "exited"]
TimedOut ==
    [kind |-> "timeout", rc |-> 0, stdout |-> <<>>, stderr |-> <<>>, child |-> "killed"]
SpawnError ==
    [kind |-> "oserror", rc |-> 0, stdout |-> <<>>, stderr |-> <<>>, child |-> "none"]

DigitVal(c) ==
    CASE c = "0" -> 0 [] c = "1" -> 1 [] c = "2" -> 2 [] c = "3" -> 3 [] c = "4" -> 4
      [] c = "5" -> 5 [] c = "6" -> 6 [] c = "7" -> 7 [] c = "8" -> 8 [] c = "9" -> 9

(* the seconds a sleep command asks for *)
RECURSIVE Seconds(_)
Seconds(tok) ==
    IF tok = <<>> THEN 0
    ELSE 10 * Seconds(SubSeq(tok, 1, Len(tok) - 1)) + DigitVal(tok[Len(tok)])

SpawnResults(command) ==
    LET toks == Split(command) IN
    IF toks = <<>> THEN { Done(0, <<>>, <<>>) }
    ELSE IF toks[1] = <<"e","c","h","o">>
         THEN { Done(0, JoinWords(Tail(toks)) \o <<"\n">>, <<>>) }
    ELSE IF toks[1] = <<"s","l","e","e","p">>
         THEN IF Len(toks) > 1 /\ Seconds(toks[2]) > Timeout
              THEN { TimedOut }
              ELSE { Done(0, <<>>, <<>>) }
    ELSE IF toks[1] = <<"c","d">> THEN { Done(0, <<>>, <<>>) }
    ELSE IF toks[1] = <<"l","s">>
         THEN { Done(0, <<"ESC", "[", "1", "m", "d", "ESC", "[", "0", "m", "\n">>, <<>>),
                Done(2, <<>>, <<"l", "s", ":", " ", "n", "o", "\n">>),
                SpawnError }
    ELSE IF toks[1] = <<"f","a","l","s","e">> THEN { Done(1, <<>>, <<>>) }
    ELSE { Done(127, <<>>, <<"n", "o", "t", " ", "f", "o", "u", "n", "d", "\n">>) }

(* re.sub of the colour sequences ESC [ params m by the empty text *)
AnsiParam == {"0", "1", "2", "3", "4", "5", "6", "7", "8", "9", ";"}

RECURSIVE SkipParams(_)
SkipParams(s) == IF s # <<>> /\ Head(s) \in AnsiParam THEN SkipParams(Tail(s)) ELSE s

RECURSIVE StripAnsi(_)
StripAnsi(s) ==
    IF s = <<>> THEN <<>>
    ELSE IF Len(s) >= 2 /\ s[1] = "ESC" /\ s[2] = "["
            /\ SkipParams(SubSeq(s, 3, Len(s))) # <<>>
            /\ Head(SkipParams(SubSeq(s, 3, Len(s)))) = "m"
         THEN StripAnsi(Tail(SkipParams(SubSeq(s, 3, Len(s)))))
         ELSE <<Head(s)>> \o StripAnsi(Tail(s))

-----------------------------------------------------------------------------
(* RunFeature.execute_command and RunFeature.handle_cd_command.  The result is *)
(* the returned text, the session's cwd after the call, and whether a process  *)
(* was spawned.                                                                *)

HandleCdCommandMut(command, cwd) ==
    [output |-> <<>>, cwd |-> cwd, spawned |-> FALSE, kind |-> "cd", child |-> "none"]

HandleCdCommand(command, cwd) ==
    LET parts == SplitMax1(Strip(command))
        t0 == IF Len(parts) < 2 THEN Home ELSE parts[2]
        t1 == IF StartsWith(t0, <<"~">>) THEN ExpandUser(t0) ELSE t0
        t2 == IF ~IsAbs(t1) THEN PathJoin(cwd, t1) ELSE t1
        target == AbsPath(t2)
    IN  IF IsDir(target)
        THEN [output |-> <<>>, cwd |-> target, spawned |-> FALSE,
              kind |-> "cd", child |-> "none"]
        ELSE [output |-> NoSuchDirText(target), cwd |-> cwd, spawned |-> FALSE,
              kind |-> "cd", child |-> "none"]

IsDeniedMut(allowed, command) == FALSE

IsDeniedListedMut(allowed, command) ==
    /\ Split(command) # <<>>
    /\ Split(command)[1] \notin allowed

IsDenied(allowed, command) ==
    /\ allowed # {}
    /\ <<"*">> \notin allowed
    /\ Split(command) # <<>>
    /\ Split(command)[1] \notin allowed

IsExitCommand(command) == Lower(Strip(command)) = ExitWord

IsCdCommand(command) == StartsWith(Strip(command), <<"c", "d", " ">>)

ProcessOutput(res) ==
    IF res.kind = "timeout" THEN TimedOutText(Timeout)
    ELSE IF res.kind = "oserror" THEN SpawnErrorText
    ELSE IF res.rc = 0 THEN StripAnsi(Strip(res.stdout))
    ELSE IF Strip(res.stderr) = <<>> THEN ExitCodeText(res.rc)
    ELSE <<"<x>", " ">> \o Strip(res.stderr)

ExecuteCommandMut(allowed, command, cwd, res) ==
    IF IsDenied(allowed, command)
    THEN [output |-> DeniedText(Split(command)[1]), cwd |-> cwd, spawned |-> FALSE,
          kind |-> "denied", child |-> "none"]
    ELSE IF IsExitCommand(command)
    THEN [output |-> ExitWord, cwd |-> cwd, spawned |-> FALSE,
          kind |-> "exit", child |-> "none"]
    ELSE IF IsCdCommand(command)
    THEN HandleCdCommand(command, cwd)
    ELSE [output |-> ProcessOutput(res), cwd |-> <<"/">>, spawned |-> TRUE,
          kind |-> IF res.kind = "done" /\ res.rc # 0 THEN "nonzero" ELSE res.kind,
          child |-> res.child]

ExecuteCommand(allowed, command, cwd, res) ==
    IF IsDenied(allowed, command)
    THEN [output |-> DeniedText(Split(command)[1]), cwd |-> cwd, spawned |-> FALSE,
          kind |-> "denied", child |-> "none"]
    ELSE IF IsExitCommand(command)
    THEN [output |-> ExitWord, cwd |-> cwd, spawned |-> FALSE,
          kind |-> "exit", child |-> "none"]
    ELSE IF IsCdCommand(command)
    THEN HandleCdCommand(command, cwd)
    ELSE [output |-> ProcessOutput(res), cwd |-> cwd, spawned |-> TRUE,
          kind |-> IF res.kind = "done" /\ res.rc # 0 THEN "nonzero" ELSE res.kind,
          child |-> res.child]

-----------------------------------------------------------------------------
(* State *)

VARIABLES
    allowed_commands,         \* feature_config["allowed_commands"]
    is_running,               \* RunFeature.is_running
    terminal_sessions,        \* user -> session object (0: no entry)
    heap,                     \* the session dicts, by object identity
    first_command_processed,  \* set of users
    ssh_message_ids,          \* set of message ids
    tasks,                    \* the on_message tasks in flight, by message id
    running,                  \* the task that holds the event loop (0: none)
    inbox,                    \* messages sent by the bot, not yet dispatched to on_message
    nextId,                   \* id of the next message created on the channel
    nextSid,                  \* identity of the next session dict
    msgs,                     \* history of every message: what was done with it
    ended,                    \* history: session -> who removed it ("" while registered)
    bannered,                 \* history: session -> terminal message the ended banner was written to
    lastExec,                 \* history: the latest call of execute_command
    serial,                   \* the gateway delivers a message only when no task is in flight
    typed,                    \* the texts users type in this run
    authors,                  \* the accounts that write on the channel in this run
    boat,                     \* the AutoBoatFeature object and its two loop tasks
    reg,                      \* history: the add_ssh_message_id calls of this run, and their order
    bot                       \* PiCordBot.run: its position, reconnect_attempts, the latest delay

vars == <<allowed_commands, is_running, terminal_sessions, heap,
          first_command_processed, ssh_message_ids, tasks, running, inbox,
          nextId, nextSid, msgs, ended, bannered, lastExec, serial, typed, authors,
          boat, reg, bot>>

(* the state of RunFeature, the router and the channel *)
sshVars == <<allowed_commands, is_running, terminal_sessions, heap,
             first_command_processed, ssh_message_ids, tasks, running, inbox,
             nextId, nextSid, msgs, ended, bannered, lastExec, serial, typed, authors,
             reg>>

(* PiCordBot.__init__, lines 47-48; last is the outcome of the latest     *)
(* connection attempt and delay the latest backoff delay in milliseconds *)
MaxReconnectAttempts == 10

NewBot == [pc |-> "start", reconnect_attempts |-> 0, last |-> "", delay |-> 0]

(* no add_ssh_message_id call yet; order tells which ids the callers of   *)
(* this run register: any message id of the channel, or a run of         *)
(* consecutive ids from the first upwards ("up") or from the last        *)
(* downwards ("down")                                                    *)
NoCalls(order) == [order |-> order, added |-> << >>, evicted |-> {}]

(* AutoBoatFeature.__init__ with the feature configuration: the command  *)
(* prefix ("/" selects slash commands) and whether collect is enabled.   *)
(* A loop is one tasks.loop task: off until start() creates it; sends    *)
(* counts the sends of the loop's command in the latest tick and failed  *)
(* tells whether that tick ended on a failed send.                       *)
NewLoop == [pc |-> "off", sends |-> 0, failed |-> FALSE, ticks |-> 0]

NewBoat(prefix, collect_enabled) ==
    [is_running |-> FALSE, prefix |-> prefix, collect_enabled |-> collect_enabled,
     slash |-> {}, deposit |-> "none",
     loop |-> [l \in {"work", "collect"} |-> NewLoop]]

(* what a user of the channel types *)
UserContents ==
    { <<".", "s", "t", "a", "r", "t", " ", "s", "s", "h">>,
      <<".", "h", "e", "l", "p">>,
      <<"e", "x", "i", "t">>,
      <<" ", "E", "x", "i", "t", "\n">>,
      <<"e", "c", "h", "o", " ", "e", "x", "i", "t">>,
      <<"e", "c", "h", "o", " ", "h", "i">>,
      <<"l", "s", " ", "-", "l", "a">>,
      <<"c", "d", " ", "/", "t">>,
      <<"s", "l", "e", "e", "p", " ", "9", "9">> }

(* outcomes of an awaited transport call: success, discord.NotFound or       *)
(* discord.HTTPException, any other exception                                *)
Outcomes == {"ok", "http", "other"}

NoRet == [kind |-> "ok", id |-> 0]

NewMsg(kind) ==
    [kind |-> kind, executed |-> 0, exit |-> FALSE, deletes |-> 0, gone |-> FALSE,
     handled |-> "none", started |-> "none", intro |-> "", done |-> FALSE,
     result |-> "", render |-> "", delfail |-> FALSE, routed |-> FALSE, target |-> 0,
     banner |-> "", raised |-> FALSE]

NewTask(author, content, pc) ==
    [author |-> author, content |-> content, pc |-> pc, ctx |-> "input",
     sid |-> 0, old |-> 0, tc |-> <<>>, ret |-> NoRet]

(* the texts typed in the runs with concurrent tasks *)
CoreContents ==
    { <<".", "s", "t", "a", "r", "t", " ", "s", "s", "h">>,
      <<"e", "x", "i", "t">>,
      <<"e", "c", "h", "o", " ", "h", "i">> }

Start ==
    /\ is_running = FALSE
    /\ terminal_sessions = [u \in Users |-> 0]
    /\ heap = << >>
    /\ first_command_processed = {}
    /\ ssh_message_ids = {}
    /\ tasks = << >>
    /\ running = 0
    /\ inbox = << >>
    /\ nextId = 1
    /\ nextSid = 1
    /\ msgs = << >>
    /\ ended = << >>
    /\ bannered = << >>
    /\ lastExec = [id |-> 0, command |-> <<>>, output |-> <<>>, spawned |-> FALSE,
                   before |-> <<>>, after |-> <<>>, kind |-> "", child |-> "none"]

(* discord.py runs every on_message event as its own task *)
Init ==
    /\ Start
    /\ boat = NewBoat("!", FALSE)
    /\ reg = NoCalls("any")
    /\ bot = NewBot
    /\ serial = FALSE
    /\ typed = CoreContents
    /\ authors = {Self}
    /\ allowed_commands = { <<"*">> }

(* the directory changes a user types, with the commands that open, show *)
(* and close a session                                                  *)
CdContents ==
    { <<".", "s", "t", "a", "r", "t", " ", "s", "s", "h">>,
      <<".", "h", "e", "l", "p">>,
      <<"e", "x", "i", "t">>,
      <<"c", "d", " ", "/", "t">>,
      <<"c", "d", " ", "d">>,
      <<"c", "d", " ", ".", ".">>,
      <<"c", "d", " ", "n", "o">>,
      <<" ", "c", "d", " ", " ", "~", "\n">>,
      <<"c", "d">>,
      <<"c", "d", "\t", "/", "t">> }

(* runs in which a message arrives only after the task of the one before it ended *)
SerialInit ==
    /\ Start
    /\ boat = NewBoat("!", FALSE)
    /\ reg = NoCalls("any")
    /\ bot = NewBot
    /\ serial = TRUE
    /\ typed = UserContents
    /\ authors = Users
    /\ allowed_commands \in AllowedConfigs

(* serial runs of the session owner changing directories, any command allowed *)
CdInit ==
    /\ Start
    /\ boat = NewBoat("!", FALSE)
    /\ reg = NoCalls("any")
    /\ bot = NewBot
    /\ serial = TRUE
    /\ typed = CdContents
    /\ authors = {Self}
    /\ allowed_commands = { <<"*">> }

(* serial runs of the session owner in which a user of the feature also *)
(* registers message ids with add_ssh_message_id and calls              *)
(* end_terminal_session directly                                        *)
ApiInit ==
    /\ Start
    /\ boat = NewBoat("!", FALSE)
    /\ reg = NoCalls("any")
    /\ bot = NewBot
    /\ serial = TRUE
    /\ typed = CoreContents
    /\ authors = {Self}
    /\ allowed_commands = { <<"*">> }

-----------------------------------------------------------------------------
(* Bookkeeping shared by the actions *)

InFlight == DOMAIN tasks

SetTask(m, t) == [i \in InFlight \cup {m} |-> IF i = m THEN t ELSE tasks[i]]

DropTask(m) == [i \in InFlight \ {m} |-> tasks[i]]

SendOutcomes == IF nextId <= MaxMsgs THEN Outcomes ELSE Outcomes \ {"ok"}

(* the value an awaited send or reply resolves to *)
SendRet(o) == [kind |-> o, id |-> IF o = "ok" THEN nextId ELSE 0]

(* a send or reply with outcome o; base is the message history after the *)
(* caller's own updates                                                   *)
Send(o, kind, content, base) ==
    IF o = "ok"
    THEN /\ nextId' = nextId + 1
         /\ inbox' = Append(inbox, [id |-> nextId, content |-> content])
         /\ msgs' = Append(base, NewMsg(kind))
    ELSE /\ UNCHANGED <<nextId, inbox>>
         /\ msgs' = base

(* the task of message m ends; handled is what handle_terminal_input returned *)
(* to the router ("none" when it was not called)                              *)
Finished(m, handled) ==
    [msgs EXCEPT ![m].done = TRUE,
                 ![m].handled = IF handled = "none" THEN @ ELSE handled]

-----------------------------------------------------------------------------
(* on_message: the gateway delivers a message and its task starts *)

RouterParts(content) == Split(Strip(SubSeq(content, Len(Prefix) + 1, Len(content))))

StartsSsh(author, content) ==
    /\ author = Self
    /\ StartsWith(content, Prefix)
    /\ Len(RouterParts(content)) > 1
    /\ Lower(RouterParts(content)[1]) = <<"s","t","a","r","t">>
    /\ Lower(RouterParts(content)[2]) = <<"s","s","h">>

CanDispatch == IF serial THEN InFlight = {} ELSE Cardinality(InFlight) < MaxInFlight

(* a user's message; the gateway delivers the messages of the channel in the *)
(* order they were created, so the bot's own earlier messages come first     *)
Receive ==
    /\ running = 0
    /\ inbox = << >>
    /\ nextId <= MaxMsgs
    /\ CanDispatch
    /\ \E author \in authors, content \in typed :
          /\ StartsSsh(author, content) => nextSid <= MaxSessions
          /\ tasks' = SetTask(nextId, NewTask(author, content, "route"))
    /\ running' = nextId
    /\ nextId' = nextId + 1
    /\ msgs' = Append(msgs, NewMsg("user"))
    /\ UNCHANGED <<bot, reg, boat, serial, typed, authors, allowed_commands, is_running, terminal_sessions, heap,
                   first_command_processed, ssh_message_ids, inbox, nextSid,
                   ended, bannered, lastExec>>

(* a message the bot itself sent comes back: its author is client.user *)
ReceiveEcho ==
    /\ running = 0
    /\ inbox # << >>
    /\ CanDispatch
    /\ tasks' = SetTask(Head(inbox).id, NewTask(Self, Head(inbox).content, "route"))
    /\ running' = Head(inbox).id
    /\ inbox' = Tail(inbox)
    /\ UNCHANGED <<bot, reg, boat, serial, typed, authors, allowed_commands, is_running, terminal_sessions, heap,
                   first_command_processed, ssh_message_ids, nextId, nextSid,
                   msgs, ended, bannered, lastExec>>


(* feature_config-independent cap of add_ssh_message_id: keep only last 50 *)
SuppressCap == 50

(* list(s)[:-SuppressCap] of a set s: the first Cardinality(s) - SuppressCap  *)
(* elements in the set's iteration order.  The order of a Python set is   *)
(* that of its hash table, not the order of insertion, so any n elements  *)
(* can be the ones that come first: the sets that can be left.            *)
RECURSIVE Drops(_, _)
Drops(s, n) ==
    IF n <= 0 THEN {s}
    ELSE UNION { Drops(s \ {d}, n - 1) : d \in s }

AddIdMut(ids, id) == { ids \cup {id} }

(* lines 48-53: the set after add_ssh_message_id(id), one candidate for *)
(* every iteration order                                                *)
AddId(ids, id) ==
    LET added == ids \cup {id} IN
    IF Cardinality(added) > SuppressCap
    THEN Drops(added, Cardinality(added) - SuppressCap)
    ELSE {added}

(* the ids the callers of this run may pass next *)
Registrable ==
    IF reg.order = "any" THEN 1..MaxMsgs
    ELSE IF Len(reg.added) >= MaxIds THEN {}
    ELSE IF reg.order = "up" THEN {Len(reg.added) + 1}
    ELSE {MaxIds - Len(reg.added)}

(* RunFeature.add_ssh_message_id, lines 46-53, called by a user of the     *)
(* feature while no task holds the event loop                              *)
AddSshMessageId ==
    /\ running = 0
    /\ \E id \in Registrable :
          /\ id \notin ssh_message_ids
          /\ \E kept \in AddId(ssh_message_ids, id) :
                /\ ssh_message_ids' = kept
                /\ reg' = [reg EXCEPT !.added = Append(@, id),
                                      !.evicted = (ssh_message_ids \cup {id}) \ kept]
    /\ UNCHANGED <<bot, boat, serial, typed, authors, allowed_commands, is_running, terminal_sessions,
                   heap, first_command_processed, tasks, running, inbox, nextId,
                   nextSid, msgs, ended, bannered, lastExec>>

IsSuppressedMut(id) == FALSE

(* lines 235 and 243: message.id in self.ssh_message_ids *)
IsSuppressed(id) == id \in ssh_message_ids

NoSessionReturnMut == "true"

(* lines 231-232: what handle_terminal_input returns without a session *)
NoSessionReturn == "false"

IsTerminalCandidateMut(author, content) == author = Self

IsTerminalCandidate(author, content) ==
    author = Self /\ ~StartsWith(content, Prefix)

Route(m) ==
    /\ running = m
    /\ tasks[m].pc = "route"
    /\ LET t == tasks[m]
           parts == RouterParts(t.content)
           command == Lower(parts[1])
           routed == [msgs EXCEPT ![m].routed = TRUE]
       IN
       IF IsTerminalCandidate(t.author, t.content)
       THEN /\ tasks' = SetTask(m, [t EXCEPT !.pc = "input"])
            /\ UNCHANGED <<running, is_running, nextId, nextSid, inbox, msgs>>
       ELSE IF t.author # Self \/ ~StartsWith(t.content, Prefix) \/ parts = << >>
       THEN /\ tasks' = DropTask(m)
            /\ running' = 0
            /\ msgs' = Finished(m, "none")
            /\ UNCHANGED <<is_running, nextId, nextSid, inbox>>
       ELSE IF command = <<"s","t","a","r","t">> /\ Len(parts) > 1
       THEN IF Lower(parts[2]) = <<"s","s","h">>
            THEN /\ is_running' = TRUE
                 /\ nextSid' = nextSid + 1
                 /\ tasks' = SetTask(m, [t EXCEPT !.pc = "start", !.ctx = "start",
                                                  !.sid = nextSid])
                 /\ msgs' = routed
                 /\ UNCHANGED <<running, nextId, inbox>>
            ELSE \E o \in SendOutcomes :
                 /\ Send(o, "notice", UnknownAppText(Lower(parts[2])), routed)
                 /\ tasks' = SetTask(m, [t EXCEPT !.pc = "await_router", !.ret = SendRet(o)])
                 /\ running' = 0
                 /\ UNCHANGED <<is_running, nextSid>>
       ELSE IF command = <<"h","e","l","p">>
       THEN \E o \in SendOutcomes :
            /\ Send(o, "notice", HelpText, routed)
            /\ tasks' = SetTask(m, [t EXCEPT !.pc = "await_router", !.ret = SendRet(o)])
            /\ running' = 0
            /\ UNCHANGED <<is_running, nextSid>>
       ELSE /\ tasks' = DropTask(m)
            /\ running' = 0
            /\ msgs' = [Finished(m, "none") EXCEPT ![m].routed = TRUE]
            /\ UNCHANGED <<is_running, nextId, nextSid, inbox>>
    /\ UNCHANGED <<bot, reg, boat, serial, typed, authors, allowed_commands, terminal_sessions, heap, first_command_processed,
                   ssh_message_ids, ended, bannered, lastExec>>

(* the send of PiCordBot.send_message resolves: the task ends either way *)
ResumeRouterSend(m) ==
    /\ running = 0
    /\ tasks[m].pc = "await_router"
    /\ tasks' = DropTask(m)
    /\ msgs' = Finished(m, "none")
    /\ UNCHANGED <<bot, reg, boat, serial, typed, authors, allowed_commands, is_running, terminal_sessions, heap,
                   first_command_processed, ssh_message_ids, running, inbox,
                   nextId, nextSid, ended, bannered, lastExec>>

-----------------------------------------------------------------------------
(* RunFeature.end_terminal_session, called by handle_terminal_input (ctx *)
(* "input") or by start_terminal_session (ctx "start")                   *)

EditOutcomes(msg) == IF msgs[msg].gone THEN {"http"} ELSE Outcomes

(* a direct call of end_terminal_session(user_id) by a user of the feature, *)
(* made while no handler is in flight (ctx "api")                          *)
EndTerminalSessionCall ==
    /\ running = 0
    /\ InFlight = {}
    /\ nextId <= MaxMsgs
    /\ \E u \in Users :
          tasks' = SetTask(nextId, [NewTask(u, << >>, "end") EXCEPT !.ctx = "api"])
    /\ running' = nextId
    /\ nextId' = nextId + 1
    /\ msgs' = Append(msgs, NewMsg("call"))
    /\ UNCHANGED <<bot, reg, boat, serial, typed, authors, allowed_commands, is_running, terminal_sessions, heap,
                   first_command_processed, ssh_message_ids, inbox, nextSid,
                   ended, bannered, lastExec>>

(* what handle_terminal_input returns after an end_terminal_session that *)
(* returned (v) or raised; a direct call returns nothing to the router   *)
Returned(ctx, v) == IF ctx = "api" THEN "none" ELSE v

(* lines 112-123: the guard and the ended banner; old is the local variable *)
(* session (line 116), the dict found under user_id                         *)
EndTerminalSession(m) ==
    /\ running = m
    /\ tasks[m].pc = "end"
    /\ LET t == tasks[m]
           sid == terminal_sessions[t.author]
       IN
       IF sid = 0
       THEN /\ IF t.ctx = "start"
               THEN /\ tasks' = SetTask(m, [t EXCEPT !.pc = "install"])
                    /\ UNCHANGED <<running, msgs>>
               ELSE /\ tasks' = DropTask(m)
                    /\ running' = 0
                    /\ msgs' = Finished(m, Returned(t.ctx, "true"))
            /\ UNCHANGED bannered
       ELSE IF heap[sid].terminal_msg # 0
       THEN /\ \E o \in EditOutcomes(heap[sid].terminal_msg) :
                 /\ tasks' = SetTask(m, [t EXCEPT !.pc = "await_banner", !.old = sid,
                                                  !.ret = [kind |-> o, id |-> 0]])
                 /\ msgs' = [msgs EXCEPT ![m].banner = o]
            /\ bannered' = [bannered EXCEPT ![sid] = heap[sid].terminal_msg]
            /\ running' = 0
       ELSE /\ tasks' = SetTask(m, [t EXCEPT !.pc = "remove", !.old = sid])
            /\ UNCHANGED <<running, msgs, bannered>>
    /\ UNCHANGED <<bot, reg, boat, serial, typed, authors, allowed_commands, is_running, terminal_sessions, heap,
                   first_command_processed, ssh_message_ids, inbox, nextId,
                   nextSid, ended, lastExec>>

AfterBannerMut(kind) == IF kind = "ok" THEN "remove" ELSE "raised"

(* lines 120-129: where end_terminal_session goes on after the banner edit *)
(* resolved with success or with an exception; the bare except passes      *)
AfterBanner(kind) == "remove"

(* the banner edit resolves; whatever it raised is swallowed *)
ResumeBanner(m) ==
    /\ running = 0
    /\ tasks[m].pc = "await_banner"
    /\ tasks' = SetTask(m, [tasks[m] EXCEPT !.pc = AfterBanner(tasks[m].ret.kind),
                                            !.ret = NoRet])
    /\ running' = m
    /\ UNCHANGED <<bot, reg, boat, serial, typed, authors, allowed_commands, is_running, terminal_sessions, heap,
                   first_command_processed, ssh_message_ids, inbox, nextId,
                   nextSid, msgs, ended, bannered, lastExec>>

(* lines 128-130: del terminal_sessions[user_id] raises KeyError when the   *)
(* entry is gone; handle_terminal_input turns it into False, the router's   *)
(* start branch into its failure notice                                     *)
RemoveSession(m) ==
    /\ running = m
    /\ tasks[m].pc = "remove"
    /\ LET t == tasks[m]
           sid == terminal_sessions[t.author]
       IN
       IF sid = 0
       THEN /\ IF t.ctx = "start"
               THEN \E o \in SendOutcomes :
                    /\ Send(o, "notice", RouterFailedText, [msgs EXCEPT ![m].raised = TRUE])
                    /\ tasks' = SetTask(m, [t EXCEPT !.pc = "await_router", !.old = 0,
                                                     !.ret = SendRet(o)])
               ELSE /\ tasks' = DropTask(m)
                    /\ msgs' = [Finished(m, Returned(t.ctx, "false")) EXCEPT ![m].raised = TRUE]
                    /\ UNCHANGED <<nextId, inbox>>
            /\ running' = 0
            /\ UNCHANGED <<terminal_sessions, first_command_processed, ended>>
       ELSE /\ terminal_sessions' = [terminal_sessions EXCEPT ![t.author] = 0]
            /\ first_command_processed' = first_command_processed \ {t.author}
            /\ ended' = [ended EXCEPT ![sid] = t.ctx]
            /\ IF t.ctx = "start"
               THEN /\ tasks' = SetTask(m, [t EXCEPT !.pc = "install", !.old = 0])
                    /\ UNCHANGED <<running, msgs>>
               ELSE /\ tasks' = DropTask(m)
                    /\ running' = 0
                    /\ msgs' = Finished(m, Returned(t.ctx, "true"))
            /\ UNCHANGED <<nextId, inbox>>
    /\ UNCHANGED <<bot, reg, boat, serial, typed, authors, allowed_commands, is_running, heap, ssh_message_ids, nextSid,
                   bannered, lastExec>>

-----------------------------------------------------------------------------
(* RunFeature.start_terminal_session *)

NeedsCleanupMut(user) == FALSE

(* line 71: if user_id in self.terminal_sessions *)
NeedsCleanup(user) == terminal_sessions[user] # 0

StartTerminalSession(m) ==
    /\ running = m
    /\ tasks[m].pc = "start"
    /\ tasks' = SetTask(m, [tasks[m] EXCEPT
                    !.pc = IF NeedsCleanup(tasks[m].author) THEN "end" ELSE "install"])
    /\ UNCHANGED <<bot, reg, boat, serial, typed, authors, allowed_commands, is_running, terminal_sessions, heap,
                   first_command_processed, ssh_message_ids, running, inbox,
                   nextId, nextSid, msgs, ended, bannered, lastExec>>

NewSession(user) ==
    [user |-> user, username |-> EnvUser, hostname |-> EnvHost, cwd |-> HostCwd,
     message_id |-> 0, terminal_msg |-> 0]

(* lines 74-97: the entry is stored, then the introductory reply is awaited *)
InstallSession(m) ==
    /\ running = m
    /\ tasks[m].pc = "install"
    /\ LET t == tasks[m]
           s == NewSession(t.author)
       IN
       /\ heap' = [i \in DOMAIN heap \cup {t.sid} |-> IF i = t.sid THEN s ELSE heap[i]]
       /\ ended' = [i \in DOMAIN ended \cup {t.sid} |-> IF i = t.sid THEN "" ELSE ended[i]]
       /\ bannered' = [i \in DOMAIN bannered \cup {t.sid} |->
                          IF i = t.sid THEN 0 ELSE bannered[i]]
       /\ terminal_sessions' = [terminal_sessions EXCEPT ![t.author] = t.sid]
       /\ \E o \in SendOutcomes :
            /\ Send(o, "intro",
                    IntroText(GetBashPrompt(s.username, s.hostname, s.cwd)),
                    [msgs EXCEPT ![m].intro = o])
            /\ tasks' = SetTask(m, [t EXCEPT !.pc = "await_reply", !.ret = SendRet(o)])
       /\ running' = 0
    /\ UNCHANGED <<bot, reg, boat, serial, typed, authors, allowed_commands, is_running, first_command_processed,
                   ssh_message_ids, nextSid, lastExec>>

(* lines 99-108: the reply resolves *)
ResumeReply(m) ==
    /\ running = 0
    /\ tasks[m].pc = "await_reply"
    /\ LET t == tasks[m]
           sid == terminal_sessions[t.author]
       IN
       IF t.ret.kind = "ok" /\ sid # 0
       THEN /\ heap' = [heap EXCEPT ![sid].message_id = t.ret.id,
                                    ![sid].terminal_msg = t.ret.id]
            /\ tasks' = DropTask(m)
            /\ msgs' = [Finished(m, "none") EXCEPT ![m].started = "true"]
            /\ UNCHANGED <<nextId, inbox>>
       ELSE \E o \in SendOutcomes :
            /\ Send(o, "notice", StartFailedText, msgs)
            /\ tasks' = SetTask(m, [t EXCEPT !.pc = "await_notice", !.ret = SendRet(o)])
            /\ UNCHANGED heap
    /\ UNCHANGED <<bot, reg, boat, serial, typed, authors, allowed_commands, is_running, terminal_sessions,
                   first_command_processed, ssh_message_ids, running, nextSid,
                   ended, bannered, lastExec>>

(* lines 106-108: the failure notice resolves; if it raised, the router's *)
(* except branch sends its own notice                                      *)
ResumeNotice(m) ==
    /\ running = 0
    /\ tasks[m].pc = "await_notice"
    /\ LET t == tasks[m] IN
       IF t.ret.kind = "ok"
       THEN /\ tasks' = DropTask(m)
            /\ msgs' = [Finished(m, "none") EXCEPT ![m].started = "false"]
            /\ UNCHANGED <<nextId, inbox>>
       ELSE \E o \in SendOutcomes :
            /\ Send(o, "notice", RouterFailedText, msgs)
            /\ tasks' = SetTask(m, [t EXCEPT !.pc = "await_router", !.ret = SendRet(o)])
    /\ UNCHANGED <<bot, reg, boat, serial, typed, authors, allowed_commands, is_running, terminal_sessions, heap,
                   first_command_processed, ssh_message_ids, running, nextSid,
                   ended, bannered, lastExec>>

-----------------------------------------------------------------------------
(* RunFeature.handle_terminal_input *)

(* lines 229-287 up to the first await: lookup, suppression, execution, and *)
(* the edit of the terminal message being issued                             *)
HandleTerminalInput(m) ==
    /\ running = m
    /\ tasks[m].pc = "input"
    /\ LET t == tasks[m]
           sid == terminal_sessions[t.author]
       IN
       IF sid = 0
       THEN /\ tasks' = DropTask(m)
            /\ running' = 0
            /\ msgs' = Finished(m, NoSessionReturn)
            /\ UNCHANGED <<heap, lastExec>>
       ELSE IF IsSuppressed(m)
       THEN /\ tasks' = DropTask(m)
            /\ running' = 0
            /\ msgs' = Finished(m, "true")
            /\ UNCHANGED <<heap, lastExec>>
       ELSE \E res \in SpawnResults(t.content) :
            LET session == heap[sid]
                head == TerminalHead(
                          GetBashPrompt(session.username, session.hostname, session.cwd),
                          t.content)
                r == ExecuteCommand(allowed_commands, t.content, session.cwd, res)
                tc == TerminalText(head, r.output,
                          GetBashPrompt(session.username, session.hostname, r.cwd))
                seen == [msgs EXCEPT ![m].executed = sid,
                                     ![m].exit = IsExitCommand(t.content),
                                     ![m].result = r.kind,
                                     ![m].target = IF r.output = ExitWord THEN 0
                                                   ELSE session.terminal_msg]
            IN
            /\ heap' = [heap EXCEPT ![sid].cwd = r.cwd]
            /\ lastExec' = [id |-> m, command |-> t.content, output |-> r.output,
                            spawned |-> r.spawned, before |-> session.cwd,
                            after |-> r.cwd, kind |-> r.kind, child |-> r.child]
            /\ msgs' = seen
            /\ IF r.output = ExitWord
               THEN /\ tasks' = SetTask(m, [t EXCEPT !.pc = "end", !.sid = sid])
                    /\ UNCHANGED running
               ELSE IF session.terminal_msg # 0
               THEN /\ \E o \in EditOutcomes(session.terminal_msg) :
                         tasks' = SetTask(m, [t EXCEPT !.pc = "await_edit", !.sid = sid,
                                                       !.tc = tc,
                                                       !.ret = [kind |-> o, id |-> 0]])
                    /\ running' = 0
               ELSE /\ tasks' = SetTask(m, [t EXCEPT !.pc = "policy", !.sid = sid,
                                                     !.tc = tc])
                    /\ UNCHANGED running
    /\ UNCHANGED <<bot, reg, boat, serial, typed, authors, allowed_commands, is_running, terminal_sessions,
                   first_command_processed, ssh_message_ids, inbox, nextId,
                   nextSid, ended, bannered>>

(* lines 278-287: the edit resolves; on NotFound/HTTPException a new terminal *)
(* message is sent; any other exception reaches the outer except: False       *)
ResumeEdit(m) ==
    /\ running = 0
    /\ tasks[m].pc = "await_edit"
    /\ LET t == tasks[m] IN
       IF t.ret.kind = "ok"
       THEN /\ tasks' = SetTask(m, [t EXCEPT !.pc = "policy", !.ret = NoRet])
            /\ running' = m
            /\ msgs' = [msgs EXCEPT ![m].render = "edited"]
            /\ UNCHANGED <<nextId, inbox>>
       ELSE IF t.ret.kind = "http"
       THEN /\ \E o \in SendOutcomes :
                 /\ Send(o, "terminal", t.tc,
                         [msgs EXCEPT ![m].render = IF o = "ok" THEN "resent" ELSE "failed"])
                 /\ tasks' = SetTask(m, [t EXCEPT !.pc = "await_fallback",
                                                  !.ret = SendRet(o)])
            /\ UNCHANGED running
       ELSE /\ tasks' = DropTask(m)
            /\ msgs' = Finished(m, "false")
            /\ UNCHANGED <<running, nextId, inbox>>
    /\ UNCHANGED <<bot, reg, boat, serial, typed, authors, allowed_commands, is_running, terminal_sessions, heap,
                   first_command_processed, ssh_message_ids, nextSid, ended,
                   bannered, lastExec>>

RebindMut(h, sid, id) == [h EXCEPT ![sid].terminal_msg = id]

(* lines 281-282: the session's terminal_msg and message_id point at the *)
(* new message                                                           *)
Rebind(h, sid, id) == [h EXCEPT ![sid].terminal_msg = id, ![sid].message_id = id]

(* lines 282-287: the fallback send resolves; the new message becomes the *)
(* terminal message of the session dict this task holds                    *)
ResumeFallback(m) ==
    /\ running = 0
    /\ tasks[m].pc = "await_fallback"
    /\ LET t == tasks[m] IN
       IF t.ret.kind = "other"
       THEN /\ tasks' = DropTask(m)
            /\ msgs' = Finished(m, "false")
            /\ UNCHANGED <<running, heap>>
       ELSE /\ tasks' = SetTask(m, [t EXCEPT !.pc = "policy", !.ret = NoRet])
            /\ running' = m
            /\ heap' = IF t.ret.kind = "ok"
                       THEN Rebind(heap, t.sid, t.ret.id)
                       ELSE heap
            /\ UNCHANGED msgs
    /\ UNCHANGED <<bot, reg, boat, serial, typed, authors, allowed_commands, is_running, terminal_sessions,
                   first_command_processed, ssh_message_ids, inbox, nextId,
                   nextSid, ended, bannered, lastExec>>

DeleteOutcomes(msg) == IF msgs[msg].gone THEN {"http"} ELSE Outcomes

(* lines 289-303: the first command of a session and exit are kept, any *)
(* other command message is deleted                                      *)
DeletionPolicy(m) ==
    /\ running = m
    /\ tasks[m].pc = "policy"
    /\ LET t == tasks[m]
           is_first_command == t.author \notin first_command_processed
           is_exit_command == IsExitCommand(t.content)
       IN
       IF ~is_first_command /\ ~is_exit_command
       THEN /\ \E o \in DeleteOutcomes(m) :
                 /\ tasks' = SetTask(m, [t EXCEPT !.pc = "await_delete",
                                                  !.ret = [kind |-> o, id |-> 0]])
                 /\ msgs' = [msgs EXCEPT ![m].deletes = @ + 1,
                                         ![m].gone = @ \/ o = "ok"]
            /\ UNCHANGED first_command_processed
       ELSE /\ first_command_processed' =
                 IF is_first_command
                 THEN first_command_processed \cup {t.author}
                 ELSE first_command_processed
            /\ tasks' = DropTask(m)
            /\ msgs' = Finished(m, "true")
    /\ running' = 0
    /\ UNCHANGED <<bot, reg, boat, serial, typed, authors, allowed_commands, is_running, terminal_sessions, heap,
                   ssh_message_ids, inbox, nextId, nextSid, ended, bannered,
                   lastExec>>

(* lines 294-307: the delete resolves *)
ResumeDelete(m) ==
    /\ running = 0
    /\ tasks[m].pc = "await_delete"
    /\ tasks' = DropTask(m)
    /\ msgs' = [Finished(m, IF tasks[m].ret.kind = "other" THEN "false" ELSE "true")
                  EXCEPT ![m].delfail = tasks[m].ret.kind # "ok"]
    /\ UNCHANGED <<bot, reg, boat, serial, typed, authors, allowed_commands, is_running, terminal_sessions, heap,
                   first_command_processed, ssh_message_ids, running, inbox,
                   nextId, nextSid, ended, bannered, lastExec>>

-----------------------------------------------------------------------------
(* AutoBoatFeature: start, stop, the auto_work and auto_collect loops and *)
(* deposit                                                                *)

BoatInit ==
    /\ Start
    /\ reg = NoCalls("any")
    /\ bot = NewBot
    /\ serial = TRUE
    /\ typed = {}
    /\ authors = {}
    /\ allowed_commands = {}
    /\ \E prefix \in {"/", "!"}, collect_enabled \in BOOLEAN :
          boat = NewBoat(prefix, collect_enabled)

(* lines 119-156: fetch_slash_commands finds any of the three commands, *)
(* then the loops are created                                           *)
BoatStart ==
    /\ ~boat.is_running
    /\ \E found \in SUBSET {"work", "collect", "deposit"} :
          /\ boat.prefix # "/" => found = {}
          /\ (~boat.collect_enabled) => "collect" \notin found
          /\ boat' = [boat EXCEPT
                 !.is_running = TRUE,
                 !.slash = found,
                 !.loop = [l \in {"work", "collect"} |->
                             IF l = "work" \/ boat.collect_enabled
                             THEN [boat.loop[l] EXCEPT !.pc = "idle"]
                             ELSE boat.loop[l]]]
    /\ UNCHANGED <<sshVars, bot>>

(* lines 158-175: the loop tasks are cancelled *)
BoatStop ==
    /\ boat.is_running
    /\ boat' = [boat EXCEPT
           !.is_running = FALSE,
           !.loop = [l \in {"work", "collect"} |->
                       IF l = "work" \/ boat.collect_enabled
                       THEN [boat.loop[l] EXCEPT !.pc = "off"]
                       ELSE boat.loop[l]]]
    /\ UNCHANGED <<sshVars, bot>>

(* lines 177-219 (auto_work) and 221-264 (auto_collect): one tick of the  *)
(* loop up to the wait for the response; when the send raises, lines      *)
(* 200-201, 216-217, 245-246, 261-262 log the exception and the tick ends *)
AutoTick(l) ==
    /\ boat.loop[l].pc = "idle"
    /\ boat.loop[l].ticks < MaxTicks
    /\ \E channel \in BOOLEAN, o \in {"ok", "fail"} :
          LET lp == [boat.loop[l] EXCEPT !.ticks = @ + 1, !.sends = 0, !.failed = FALSE]
          IN
          IF ~channel \/ (boat.prefix = "/" /\ l \notin boat.slash)
          THEN /\ o = "ok"
               /\ boat' = [boat EXCEPT !.loop[l] = lp]
          ELSE IF o = "ok"
          THEN boat' = [boat EXCEPT !.loop[l] = [lp EXCEPT !.pc = "sent", !.sends = 1]]
          ELSE boat' = [boat EXCEPT !.loop[l] =
                           [lp EXCEPT !.sends = 1, !.failed = TRUE]]
    /\ UNCHANGED <<sshVars, bot>>

(* lines 266-295: deposit after the response wait; its failures are logged *)
Deposit(l) ==
    /\ boat.loop[l].pc = "sent"
    /\ \E o \in {"ok", "fail"} :
          boat' = [boat EXCEPT
              !.loop[l].pc = "idle",
              !.deposit = IF boat.prefix = "/" /\ "deposit" \notin boat.slash
                          THEN "missing" ELSE o]
    /\ UNCHANGED <<sshVars, bot>>

BoatNext ==
    \/ BoatStart
    \/ BoatStop
    \/ \E l \in {"work", "collect"} : AutoTick(l)
    \/ \E l \in {"work", "collect"} : Deposit(l)

BoatSpec == BoatInit /\ [][BoatNext]_vars

-----------------------------------------------------------------------------
(* PiCordBot.run and PiCordBot.exponential_backoff *)

BaseDelay == 2
MaxDelay == 300

RECURSIVE Pow(_, _)
Pow(b, n) == IF n = 0 THEN 1 ELSE b * Pow(b, n - 1)

Min(a, b) == IF a < b THEN a ELSE b

(* hash(str(attempt)) % 100: str hashes are salted per process *)
HashMod == 0..99

(* lines 415-421, in milliseconds: delay + delay * 0.1 * (0.5 - k / 100) *)
ExponentialBackoff(attempt, k) ==
    Min(Pow(BaseDelay, attempt), MaxDelay) * (1050 - k)

RunInit ==
    /\ Start
    /\ boat = NewBoat("!", FALSE)
    /\ reg = NoCalls("any")
    /\ bot = NewBot
    /\ serial = TRUE
    /\ typed = {}
    /\ authors = {}
    /\ allowed_commands = { <<"*">> }

(* lines 424-430: without a token run() leaves through sys.exit(1) *)
LoadToken ==
    /\ bot.pc = "start"
    /\ \E token \in BOOLEAN :
          bot' = [bot EXCEPT !.pc = IF token THEN "loop" ELSE "exit"]
    /\ UNCHANGED <<sshVars, boat>>

AfterFailedCheckMut(attempts) == attempts

(* line 441: reconnect_attempts after a failed connectivity check *)
AfterFailedCheck(attempts) == attempts + 1

(* lines 433-458: one pass of the while loop.  The connectivity check    *)
(* fails (sleep, count, continue), or client.run returns (break), or     *)
(* something in the try block raises (count, give up at the bound or     *)
(* sleep)                                                                *)
ConnectAttempt ==
    /\ bot.pc = "loop"
    /\ bot.reconnect_attempts < MaxReconnectAttempts
    /\ \E outcome \in {"check_failed", "returned", "raised"}, k \in HashMod :
          IF outcome = "check_failed"
          THEN bot' = [bot EXCEPT
                         !.delay = ExponentialBackoff(bot.reconnect_attempts, k),
                         !.reconnect_attempts = AfterFailedCheck(@),
                         !.last = outcome]
          ELSE IF outcome = "returned"
          THEN /\ k = 0
               /\ bot' = [bot EXCEPT !.pc = "returned", !.last = outcome]
          ELSE IF bot.reconnect_attempts + 1 >= MaxReconnectAttempts
          THEN /\ k = 0
               /\ bot' = [bot EXCEPT !.pc = "returned", !.last = outcome,
                                     !.reconnect_attempts = @ + 1]
          ELSE bot' = [bot EXCEPT
                         !.delay = ExponentialBackoff(bot.reconnect_attempts + 1, k),
                         !.reconnect_attempts = @ + 1,
                         !.last = outcome]
    /\ UNCHANGED <<sshVars, boat>>

(* line 433: the while condition is false *)
GiveUp ==
    /\ bot.pc = "loop"
    /\ bot.reconnect_attempts >= MaxReconnectAttempts
    /\ bot' = [bot EXCEPT !.pc = "returned"]
    /\ UNCHANGED <<sshVars, boat>>

RunNext ==
    \/ LoadToken
    \/ ConnectAttempt
    \/ GiveUp

(* run() is the only thread of the process until client.run takes over: *)
(* a step that can be taken is taken                                    *)
RunSpec == RunInit /\ [][RunNext]_vars /\ WF_vars(RunNext)

-----------------------------------------------------------------------------
(* Specification *)

Next ==
    \/ Receive
    \/ ReceiveEcho
    \/ \E m \in InFlight : Route(m)
    \/ \E m \in InFlight : ResumeRouterSend(m)
    \/ \E m \in InFlight : StartTerminalSession(m)
    \/ \E m \in InFlight : EndTerminalSession(m)
    \/ \E m \in InFlight : ResumeBanner(m)
    \/ \E m \in InFlight : RemoveSession(m)
    \/ \E m \in InFlight : InstallSession(m)
    \/ \E m \in InFlight : ResumeReply(m)
    \/ \E m \in InFlight : ResumeNotice(m)
    \/ \E m \in InFlight : HandleTerminalInput(m)
    \/ \E m \in InFlight : ResumeEdit(m)
    \/ \E m \in InFlight : ResumeFallback(m)
    \/ \E m \in InFlight : DeletionPolicy(m)
    \/ \E m \in InFlight : ResumeDelete(m)

Spec == Init /\ [][Next]_vars

SerialSpec == SerialInit /\ [][Next]_vars

CdSpec == CdInit /\ [][Next]_vars

ApiNext ==
    \/ Next
    \/ AddSshMessageId
    \/ EndTerminalSessionCall

ApiSpec == ApiInit /\ [][ApiNext]_vars

(* runs of add_ssh_message_id calls alone, long enough to pass the cap *)
SuppressInit ==
    /\ Start
    /\ boat = NewBoat("!", FALSE)
    /\ serial = TRUE
    /\ typed = {}
    /\ authors = {}
    /\ allowed_commands = { <<"*">> }
    /\ \E order \in {"up", "down"} : reg = NoCalls(order)
    /\ bot = NewBot

SuppressSpec == SuppressInit /\ [][AddSshMessageId]_vars

-----------------------------------------------------------------------------
(* Properties *)

(* the sessions of a user that were stored in terminal_sessions and not yet *)
(* removed by end_terminal_session                                          *)
LiveSessions(u) == {s \in DOMAIN heap : heap[s].user = u /\ ended[s] = ""}

(* the task of message m returns from its handler in this step *)
Completes(m) == ~msgs[m].done /\ msgs'[m].done

Restricted == allowed_commands # {} /\ <<"*">> \notin allowed_commands

(* C1: terminal_sessions holds at most one session per user: the sessions  *)
(* stored and not yet removed by end_terminal_session are exactly the       *)
(* user's current entry, and a session is installed only over an empty      *)
(* entry.  When a start_terminal_session call that found a session removes  *)
(* the user's entry, the ended banner was attempted on the terminal message *)
(* of the session it found (if it had one), the entry is removed and the    *)
(* user is cleared from first_command_processed, and the same call goes on  *)
(* to install the fresh session with nothing in between.                    *)
C1_OneSessionPerUser ==
    [][\A u \in Users :
         /\ LiveSessions(u)' =
              (IF terminal_sessions'[u] = 0 THEN {} ELSE {terminal_sessions'[u]})
         /\ (terminal_sessions'[u] # terminal_sessions[u] /\ terminal_sessions'[u] # 0)
              => terminal_sessions[u] = 0
         /\ \A s \in DOMAIN heap :
              (heap[s].user = u /\ ended[s] = "" /\ ended'[s] = "start")
                => /\ terminal_sessions'[u] = 0
                   /\ u \notin first_command_processed'
                   /\ tasks[running].old # 0
                   /\ (heap[tasks[running].old].terminal_msg # 0
                         => bannered[tasks[running].old] # 0)
                   /\ running' = running
                   /\ tasks'[running'].pc = "install"]_vars

(* C1 witness: a start removed a session whose banner was attempted, and a *)
(* fresh session is installed for that user                                 *)
C1_Witness ==
    \E s \in DOMAIN heap :
        /\ ended[s] = "start"
        /\ bannered[s] # 0
        /\ terminal_sessions[heap[s].user] \notin {0, s}

(* C2: a message whose trimmed content is exit (any letter case), handled  *)
(* while its sender has a session, leaves no session registered for the     *)
(* sender when its handling ends, and delete was never called on it.         *)
C2_ExitEndsSession ==
    [][\A m \in DOMAIN msgs :
         (msgs[m].executed # 0 /\ msgs[m].exit /\ Completes(m))
           => /\ terminal_sessions'[Self] = 0
              /\ msgs'[m].deletes = 0]_vars

(* C3: a session that exists when handle_terminal_input is called still *)
(* exists when it returns unless the trimmed content is exit.            *)
C3_OnlyExitEnds ==
    [][\A m \in DOMAIN msgs :
         (msgs[m].executed # 0 /\ ~msgs[m].exit /\ Completes(m))
           => terminal_sessions'[Self] = msgs[m].executed]_vars

(* C4: the introductory message and a re-created terminal message, sent by *)
(* the session manager itself, are never passed to execute_command.        *)
C4_OwnMessagesNotExecuted ==
    \A m \in DOMAIN msgs :
        msgs[m].kind \in {"intro", "terminal"} => msgs[m].executed = 0

(* C5: once the router has run start_terminal_session for a triggering  *)
(* message and its handling ended, the message id is in ssh_message_ids. *)
C5_TriggerSuppressed ==
    \A m \in DOMAIN msgs :
        (msgs[m].started # "none" /\ msgs[m].done) => m \in ssh_message_ids

(* the messages processed as commands of session s whose handling ended *)
Processed(s) == {m \in DOMAIN msgs : msgs[m].executed = s /\ msgs[m].done}

(* C6: of the messages processed as commands of a session, the first is     *)
(* never deleted, every later one that is not exit has delete attempted     *)
(* exactly once, and the user is in first_command_processed exactly from    *)
(* the end of the first processed command.                                   *)
C6_DeletionPolicy ==
    /\ \A m \in DOMAIN msgs :
         (msgs[m].executed # 0 /\ msgs[m].done)
           => LET first == \A k \in DOMAIN msgs :
                               msgs[k].executed = msgs[m].executed => k >= m
              IN  msgs[m].deletes =
                    (IF first \/ msgs[m].exit THEN 0 ELSE 1)
    /\ \A u \in Users :
         terminal_sessions[u] # 0
           => (u \in first_command_processed <=> Processed(terminal_sessions[u]) # {})

(* C7: handle_terminal_input returns true whenever a session existed for *)
(* the sender and the message was not suppressed.                         *)
C7_AlwaysHandled ==
    \A m \in DOMAIN msgs :
        (msgs[m].executed # 0 /\ msgs[m].done) => msgs[m].handled = "true"

(* C8: when the introductory message cannot be sent, start_terminal_session *)
(* returns false and no session is registered for the user.                  *)
C8_FailedStartLeavesNoSession ==
    [][\A m \in InFlight :
         (tasks[m].pc = "await_notice" /\ msgs[m].intro \in {"http", "other"}
            /\ (m \notin DOMAIN tasks' \/ tasks'[m].pc # "await_notice"))
           => /\ msgs'[m].started = "false"
              /\ terminal_sessions'[tasks[m].author] = 0]_vars

(* C9: while the render step (terminal-message edit or fallback send) of a *)
(* command is pending, no later message of the user has been executed.     *)
C9_NoPipelining ==
    \A m \in InFlight :
        tasks[m].pc \in {"await_edit", "await_fallback"}
          => \A k \in DOMAIN msgs : k > m => msgs[k].executed = 0

(* C10: under a non-empty allow-list without the wildcard, a command whose   *)
(* first token is not in the list spawns no process, leaves cwd unchanged    *)
(* and returns the denial message, which contains that token.                *)
C10_DeniedCommand ==
    (lastExec.id # 0 /\ Restricted /\ Split(lastExec.command) # << >>
       /\ Split(lastExec.command)[1] \notin allowed_commands)
      => /\ ~lastExec.spawned
         /\ lastExec.after = lastExec.before
         /\ lastExec.output = DeniedText(Split(lastExec.command)[1])
         /\ Contains(lastExec.output, Split(lastExec.command)[1])

(* C10 witness: ls -la was denied under the allow-list echo, cd *)
C10_Witness ==
    /\ lastExec.id # 0
    /\ Restricted
    /\ Split(lastExec.command) # << >>
    /\ Split(lastExec.command)[1] = <<"l", "s">>
    /\ ~lastExec.spawned
    /\ Contains(lastExec.output, <<"l", "s">>)


(* the path a cd command names: the text after the first token *)
CdPath(command) == SplitMax1(Strip(command))[2]

(* a path resolved against a session's cwd *)
Resolved(cwd, path) == NormPath(PathJoin(cwd, ExpandUser(path)))

(* C11: for a cd <path> command that the allow-list lets through: if the *)
(* path resolved against the session's cwd is an existing directory, cwd *)
(* becomes that resolved path and the output is empty; otherwise cwd is  *)
(* unchanged and the output is the no-such-file-or-directory message     *)
(* naming the resolved path.                                             *)
C11_CdCommand ==
    (/\ lastExec.id # 0
     /\ IsCdCommand(lastExec.command)
     /\ ~IsDenied(allowed_commands, lastExec.command))
    => LET target == Resolved(lastExec.before, CdPath(lastExec.command)) IN
       IF target \in Dirs
       THEN lastExec.after = target /\ lastExec.output = << >>
       ELSE lastExec.after = lastExec.before /\ lastExec.output = NoSuchDirText(target)

(* C11 witness: a relative path resolved against a cwd that an earlier cd set *)
C11_Witness ==
    /\ lastExec.command = <<"c", "d", " ", ".", ".">>
    /\ lastExec.before = <<"/", "h", "/", "d">>
    /\ lastExec.after = <<"/", "h">>
    /\ lastExec.output = << >>

FailedCommand(r) ==
    \/ r.result \in {"denied", "timeout", "nonzero", "oserror"}
    \/ r.render = "failed"
    \/ r.delfail

(* C13: no per-command failure ends the session: when the handler of a    *)
(* command that was denied, timed out, exited nonzero, could not be       *)
(* spawned, could not be rendered (edit and fallback send failed) or      *)
(* could not be deleted returns, the user's entry in terminal_sessions is *)
(* the same session with the username and hostname it was created with.   *)
C13_FailuresKeepSession ==
    [][\A m \in DOMAIN msgs :
          (msgs[m].executed # 0 /\ Completes(m) /\ FailedCommand(msgs'[m]))
            => /\ terminal_sessions'[Self] = msgs[m].executed
               /\ heap'[msgs[m].executed].username = EnvUser
               /\ heap'[msgs[m].executed].hostname = EnvHost]_vars

(* C13 witness: a command that exited nonzero and whose render failed twice *)
(* has returned, and one that timed out and whose delete failed, with the   *)
(* session still registered                                                 *)
C13_Witness ==
    \E m, k \in DOMAIN msgs :
        /\ msgs[m].done /\ msgs[m].result = "nonzero" /\ msgs[m].render = "failed"
        /\ msgs[k].done /\ msgs[k].result = "timeout" /\ msgs[k].delfail
        /\ msgs[k].executed = msgs[m].executed
        /\ terminal_sessions[Self] = msgs[m].executed

(* the step in which handle_terminal_input is entered for message m *)
EntersInput(m) == m \in InFlight /\ tasks[m].pc = "input" /\ running = m

(* C14: handle_terminal_input for a sender with no session returns false  *)
(* at once and has no effect: nothing is executed, no message is sent,    *)
(* edited or deleted, and terminal_sessions, first_command_processed and  *)
(* ssh_message_ids (and the session dicts) are unchanged.                 *)
C14_NoSessionNoEffect ==
    [][\A m \in DOMAIN msgs :
          (EntersInput(m) /\ terminal_sessions[tasks[m].author] = 0)
            => /\ msgs'[m] = [msgs[m] EXCEPT !.done = TRUE, !.handled = "false"]
               /\ \A k \in DOMAIN msgs \ {m} : msgs'[k] = msgs[k]
               /\ m \notin DOMAIN tasks'
               /\ UNCHANGED <<lastExec, nextId, inbox, bannered, heap, ended,
                              terminal_sessions, first_command_processed,
                              ssh_message_ids>>]_vars

(* C14 witness: a non-prefixed message of client.user was handed to       *)
(* handle_terminal_input after the session had been closed, and returned  *)
C14_Witness ==
    \E m \in DOMAIN msgs :
        /\ msgs[m].kind = "user" /\ msgs[m].done /\ msgs[m].handled = "false"
        /\ msgs[m].executed = 0
        /\ terminal_sessions[Self] = 0
        /\ \E s \in DOMAIN ended : ended[s] = "input"

(* C15: handle_terminal_input for a sender with a session, on a message   *)
(* whose id is in ssh_message_ids, returns true at once and has no        *)
(* effect: nothing is executed, no message is sent, edited or deleted,    *)
(* and the session dicts (cwd), terminal_sessions, ssh_message_ids and    *)
(* first_command_processed are unchanged.                                 *)
C15_SuppressedConsumed ==
    [][\A m \in DOMAIN msgs :
          (/\ EntersInput(m)
           /\ terminal_sessions[tasks[m].author] # 0
           /\ m \in ssh_message_ids)
            => /\ msgs'[m] = [msgs[m] EXCEPT !.done = TRUE, !.handled = "true"]
               /\ \A k \in DOMAIN msgs \ {m} : msgs'[k] = msgs[k]
               /\ m \notin DOMAIN tasks'
               /\ UNCHANGED <<lastExec, nextId, inbox, bannered, heap, ended,
                              terminal_sessions, first_command_processed,
                              ssh_message_ids>>]_vars

(* C15 witness: the introductory message of a session, registered as      *)
(* suppressed, came back and was consumed while the session is registered *)
C15_Witness ==
    \E m \in DOMAIN msgs :
        /\ msgs[m].kind = "intro" /\ msgs[m].done /\ msgs[m].handled = "true"
        /\ msgs[m].executed = 0
        /\ m \in ssh_message_ids
        /\ terminal_sessions[Self] # 0

(* C16: a message for which handle_terminal_input returned true is never  *)
(* dispatched as a bot command by handle_message, and handle_terminal_    *)
(* input is never entered for a message whose content starts with the     *)
(* bot prefix.                                                            *)
C16_RouterGate ==
    /\ [](\A m \in DOMAIN msgs :
            msgs[m].handled = "true" => (~msgs[m].routed /\ msgs[m].started = "none"))
    /\ [][\A m \in DOMAIN msgs :
            EntersInput(m) => ~StartsWith(tasks[m].content, Prefix)]_vars

(* C16 witness: while a session is registered, a prefixed message is      *)
(* dispatched as a bot command without having been offered as terminal    *)
(* input, and an earlier message was consumed as terminal input           *)
C16_Witness ==
    \E m \in InFlight, k \in DOMAIN msgs :
        /\ StartsWith(tasks[m].content, Prefix)
        /\ msgs[m].routed /\ msgs[m].handled = "none"
        /\ terminal_sessions[Self] # 0
        /\ msgs[k].handled = "true" /\ msgs[k].executed = terminal_sessions[Self]

(* C17: when the send of the work or collect command fails, the command is *)
(* retried: the tick that ends on a failure has sent the command again at  *)
(* least once and at most three times after the first send.                *)
C17_RetryWithBackoff ==
    \A l \in {"work", "collect"} :
        boat.loop[l].failed => boat.loop[l].sends \in 2..4

(* the trimmed command is cd followed by whitespace or by the end of the text *)
IsCdWord(command) ==
    LET t == Strip(command) IN
    /\ StartsWith(t, <<"c", "d">>)
    /\ (Len(t) = 2 \/ t[3] \in WS)

(* C18: every command whose trimmed text is cd followed by whitespace or  *)
(* by the end of the text (and that the allow-list lets through) is       *)
(* handled without spawning a process, and a bare cd sets the session's   *)
(* cwd to the home directory.                                             *)
C18_CdNeverSpawns ==
    (/\ lastExec.id # 0
     /\ IsCdWord(lastExec.command)
     /\ ~IsDenied(allowed_commands, lastExec.command))
    => /\ ~lastExec.spawned
       /\ Strip(lastExec.command) = <<"c", "d">> => lastExec.after = Home

(* C19: when the edit of the terminal message failed with NotFound or     *)
(* HTTPException, one send of the same content is made; when that send    *)
(* succeeded the session's terminal_msg and message_id are both the new    *)
(* message; when it failed the session dict (terminal_msg, message_id,     *)
(* cwd) is left as it was; the render of every command is attempted on the *)
(* terminal_msg the session holds at that time.                            *)
C19_RenderFallback ==
    [][\A m \in InFlight :
         /\ (tasks[m].pc = "await_edit" /\ tasks[m].ret.kind = "http"
                /\ tasks'[m].pc = "await_fallback")
              => IF tasks'[m].ret.kind = "ok"
                 THEN /\ nextId' = nextId + 1
                      /\ inbox' = Append(inbox, [id |-> nextId, content |-> tasks[m].tc])
                      /\ tasks'[m].ret.id = nextId
                 ELSE nextId' = nextId /\ inbox' = inbox
         /\ (tasks[m].pc = "await_fallback"
                /\ (m \notin DOMAIN tasks' \/ tasks'[m].pc # "await_fallback"))
              => /\ nextId' = nextId /\ inbox' = inbox
                 /\ IF tasks[m].ret.kind = "ok"
                    THEN /\ heap'[tasks[m].sid].terminal_msg = tasks[m].ret.id
                         /\ heap'[tasks[m].sid].message_id = tasks[m].ret.id
                         /\ heap'[tasks[m].sid].cwd = heap[tasks[m].sid].cwd
                    ELSE heap' = heap
         /\ (EntersInput(m) /\ m \in DOMAIN tasks' /\ tasks'[m].pc = "await_edit")
              => /\ msgs'[m].target = heap[msgs'[m].executed].terminal_msg
                 /\ msgs'[m].target # 0]_vars

(* C19 witness: a render whose edit and fallback send both failed, then   *)
(* the next command rendered on the same terminal message; and a render   *)
(* whose fallback send replaced the terminal message                      *)
C19_Witness ==
    \E m, k \in DOMAIN msgs :
        /\ m < k
        /\ msgs[m].done /\ msgs[m].render = "failed" /\ msgs[m].target # 0
        /\ msgs[k].executed = msgs[m].executed
        /\ msgs[k].target = msgs[m].target
        /\ msgs[k].done /\ msgs[k].render = "resent"
        /\ heap[msgs[k].executed].terminal_msg > msgs[k].target
        /\ heap[msgs[k].executed].message_id = heap[msgs[k].executed].terminal_msg

(***************************************************************************)
(* C20: in every reachable state every user in first_command_processed    *)
(* has an entry in terminal_sessions, also when the session is ended or   *)
(* restarted while one of the user's commands waits at a transport await: *)
(* the handler that resumes does not add the user again.                  *)
(***************************************************************************)
C20_NoStaleFirstCommand ==
    \A u \in first_command_processed : terminal_sessions[u] # 0

(* C21: after any sequence of add_ssh_message_id calls ssh_message_ids *)
(* holds at most 50 identifiers.                                        *)
C21_AtMostCap == Cardinality(ssh_message_ids) <= SuppressCap

(* C21 witness: more ids than the cap were added, the latest call evicted *)
(* one, and the set is full                                                *)
C21_Witness ==
    /\ Len(reg.added) > SuppressCap
    /\ reg.evicted # {}
    /\ Cardinality(ssh_message_ids) = SuppressCap

(* the most recent (up to SuppressCap) ids of a sequence of distinct ids *)
Recent(added) ==
    { added[i] : i \in { j \in 1..Len(added) : j > Len(added) - SuppressCap } }

(* C22: after any sequence of add_ssh_message_id calls the set is exactly *)
(* the most recent (up to 50) distinct identifiers added: an eviction     *)
(* removes the id inserted earliest, and the id just added is in the set. *)
C22_EvictsOldest == ssh_message_ids = Recent(reg.added)

(* C23: end_terminal_session for a user without a session changes nothing *)
(* and awaits nothing; for a user with a session it issues the edit of    *)
(* the terminal message to the ended banner, and whatever that edit       *)
(* resolved to, it goes on to remove the user's entry and to clear the    *)
(* user from first_command_processed.                                     *)
C23_EndTerminalSession ==
    [][\A m \in InFlight :
         LET u == tasks[m].author
             sid == terminal_sessions[u]
         IN
         /\ (running = m /\ tasks[m].pc = "end" /\ sid = 0)
              => /\ UNCHANGED <<terminal_sessions, heap, first_command_processed,
                                ssh_message_ids, nextId, inbox, bannered, ended>>
                 /\ msgs'[m].banner = ""
                 /\ (m \notin DOMAIN tasks' \/ tasks'[m].pc = "install")
         /\ (running = m /\ tasks[m].pc = "end" /\ sid # 0 /\ heap[sid].terminal_msg # 0)
              => /\ tasks'[m].pc = "await_banner"
                 /\ msgs'[m].banner \in Outcomes
                 /\ bannered'[sid] = heap[sid].terminal_msg
                 /\ UNCHANGED <<terminal_sessions, first_command_processed>>
         /\ (tasks[m].pc = "await_banner" /\ tasks' # tasks)
              => /\ tasks'[m].pc = "remove"
                 /\ running' = m
                 /\ UNCHANGED <<terminal_sessions, first_command_processed>>
         /\ (running = m /\ tasks[m].pc = "remove")
              => /\ sid = tasks[m].old
                 /\ terminal_sessions' = [terminal_sessions EXCEPT ![u] = 0]
                 /\ first_command_processed' = first_command_processed \ {u}]_vars

(* C23 witness: a call for a user without a session has returned without   *)
(* attempting an edit, and a session whose banner edit failed was removed  *)
(* with the user cleared from first_command_processed                      *)
C23_Witness ==
    \E k, m \in DOMAIN msgs :
        /\ msgs[k].kind = "call" /\ msgs[k].done /\ msgs[k].banner = ""
        /\ msgs[m].done /\ msgs[m].banner \in {"http", "other"}
        /\ \E s \in DOMAIN ended : ended[s] # "" /\ bannered[s] # 0
        /\ \E e \in DOMAIN msgs : msgs[e].executed # 0 /\ msgs[e].done /\ ~msgs[e].exit
        /\ terminal_sessions[Self] = 0
        /\ Self \notin first_command_processed

(* C24: execute_command changes the session's cwd only through the cd     *)
(* branch: a call that was denied, returned the exit word, spawned a      *)
(* process (any exit code), timed out or failed to spawn leaves the       *)
(* session dict (cwd, username, hostname, terminal_msg, message_id) as it *)
(* was.                                                                   *)
C24_OnlyCdChangesCwd ==
    /\ [](lastExec.kind \in {"denied", "exit", "done", "nonzero", "timeout", "oserror"}
            => lastExec.after = lastExec.before)
    /\ [][\A m \in InFlight :
            (EntersInput(m) /\ lastExec'.id = m /\ lastExec'.kind # "cd")
              => /\ heap' = heap
                 /\ lastExec'.before = heap[terminal_sessions[tasks[m].author]].cwd]_vars

(* C24 witness: after a cd moved the session to /t, a command that could *)
(* not be spawned left cwd at /t                                         *)
C24_Witness ==
    /\ lastExec.kind = "oserror"
    /\ lastExec.before = <<"/", "t">>
    /\ lastExec.after = <<"/", "t">>
    /\ \E s \in DOMAIN heap : terminal_sessions[Self] = s /\ heap[s].cwd = <<"/", "t">>

(* C25: execute_command never raises: when the spawn fails the call returns *)
(* the error text with cwd unchanged, handle_terminal_input issues the      *)
(* render of a terminal text holding that error text, and when the handler  *)
(* returns the session is still registered.                                 *)
C25_ErrorsBecomeText ==
    /\ [](lastExec.kind = "oserror"
            => /\ lastExec.output = SpawnErrorText
               /\ lastExec.after = lastExec.before)
    /\ [][\A m \in InFlight :
            (EntersInput(m) /\ lastExec'.id = m /\ lastExec'.kind = "oserror")
              => /\ tasks'[m].pc = "await_edit"
                 /\ Contains(tasks'[m].tc, SpawnErrorText)
                 /\ terminal_sessions'[tasks[m].author] = msgs'[m].executed]_vars
    /\ [][\A m \in DOMAIN msgs :
            (msgs[m].result = "oserror" /\ Completes(m))
              => terminal_sessions'[Self] = msgs[m].executed]_vars

(* the prompt line shown for a directory: user, host and the directory *)
(* with the home directory shortened to ~                              *)
PromptOf(cwd) == GetBashPrompt(EnvUser, EnvHost, cwd)

(* C26: the text rendered for a command is the terminal header, the      *)
(* prompt of the cwd before the command followed by the command as       *)
(* typed, the output on a line of its own only when it is not empty, and *)
(* the prompt of the cwd after the command, closed by the fence; after a *)
(* cd that changed the directory the two prompts differ, the first       *)
(* showing the old directory and the last the new one.                   *)
C26_RenderedText ==
    [][\A m \in InFlight :
         (EntersInput(m) /\ lastExec'.id = m /\ tasks'[m].pc = "await_edit")
           => LET e == lastExec'
                  lines == <<"*", "*", "<desktop>", " ", "Terminal**", "\n", "<fence>", "\n">>
                           \o PromptOf(e.before) \o e.command \o <<"\n">>
                  out == IF e.output = << >> THEN << >> ELSE e.output \o <<"\n">>
              IN  /\ tasks'[m].tc = lines \o out \o PromptOf(e.after) \o <<"<fence>">>
                  /\ e.before = heap[terminal_sessions[tasks[m].author]].cwd
                  /\ e.after = heap'[terminal_sessions[tasks[m].author]].cwd
                  /\ (e.kind = "cd" /\ e.after # e.before)
                       => PromptOf(e.after) # PromptOf(e.before)]_vars

(* C26 witness: the render of cd /t typed in the home directory is pending *)
C26_Witness ==
    \E m \in InFlight :
        /\ tasks[m].pc = "await_edit"
        /\ lastExec.id = m
        /\ lastExec.before = Home
        /\ tasks[m].tc =
             <<"*", "*", "<desktop>", " ", "Terminal**", "\n", "<fence>", "\n",
               "[", "u", "@", "h", " ", "~", "]", "$", " ", "c", "d", " ", "/", "t", "\n",
               "[", "u", "@", "h", " ", "/", "t", "]", "$", " ", "<fence>">>

(* C27: delete is never called on the message that a registered session's *)
(* terminal_msg references, in particular not on a terminal message that  *)
(* the render fallback sent and that came back as input of the owner.     *)
C27_TerminalMsgNotDeleted ==
    \A u \in Users :
        (terminal_sessions[u] # 0 /\ heap[terminal_sessions[u]].terminal_msg # 0)
          => msgs[heap[terminal_sessions[u]].terminal_msg].deletes = 0

(* C28: end_terminal_session never raises, also when two invocations for *)
(* the same user overlap at the banner edit: the removal of the one that  *)
(* resumes second does not fail on the missing entry.                     *)
C28_EndNeverRaises ==
    \A m \in DOMAIN msgs : ~msgs[m].raised

(* the denial message for some token *)
IsDenialText(output) ==
    StartsWith(output, <<"<x>", " ", "Command", " ", "<bq>">>)

(* C29: when allowed_commands is absent or the empty list, or contains    *)
(* the wildcard (alone or among other entries), execute_command denies no *)
(* command, whatever its first token: the command takes the exit, cd or   *)
(* subprocess path and the result is not the denial message.              *)
C29_UnrestrictedDeniesNothing ==
    (lastExec.id # 0 /\ (allowed_commands = {} \/ <<"*">> \in allowed_commands))
      => /\ lastExec.kind \in {"exit", "cd", "done", "nonzero", "timeout", "oserror"}
         /\ ~IsDenialText(lastExec.output)
         /\ (~IsExitCommand(lastExec.command) /\ ~IsCdCommand(lastExec.command))
              => lastExec.spawned

(* C29 witness: with the wildcard listed next to echo, ls -la was spawned *)
C29_Witness ==
    /\ allowed_commands = { <<"*">>, <<"e","c","h","o">> }
    /\ lastExec.id # 0
    /\ Split(lastExec.command)[1] = <<"l", "s">>
    /\ lastExec.spawned
    /\ lastExec.kind = "nonzero"

(* the connection attempts that count as failed *)
FailedAttempt(b) == b.last \in {"check_failed", "raised"}

(* C30: PiCordBot.run terminates when connections keep failing: every     *)
(* failed attempt (failed connectivity check or exception in the try      *)
(* block) increases reconnect_attempts by exactly one, reconnect_attempts *)
(* never exceeds max_reconnect_attempts (10), the loop is left only at    *)
(* that bound or when client.run returned, and run() does end.            *)
C30_RunTerminates ==
    /\ [](bot.reconnect_attempts \in 0..MaxReconnectAttempts)
    /\ [][(bot.pc = "loop" /\ bot.reconnect_attempts < MaxReconnectAttempts
               /\ FailedAttempt(bot'))
            => bot'.reconnect_attempts = bot.reconnect_attempts + 1]_bot
    /\ [](bot.pc = "returned"
            => (bot.last = "returned" \/ bot.reconnect_attempts = MaxReconnectAttempts))
    /\ <>(bot.pc \in {"returned", "exit"})

(* C30 witness: ten attempts failed, the last a failed connectivity check *)
(* slept before at the capped delay, and run() has left the loop          *)
C30_Witness ==
    /\ bot.pc = "returned"
    /\ bot.last = "check_failed"
    /\ bot.reconnect_attempts = MaxReconnectAttempts
    /\ bot.delay = MaxDelay * 1000

=============================================================================
